---- MODULE Spec2Model ----
(***************************************************************************)
(* Model of snort::Module (src/framework/module.cc): the peg-count         *)
(* aggregation (reset_stats / sum_stats / get_global_count), the verified  *)
(* begin / set / end configuration walk and the trace mask.                *)
(*                                                                         *)
(* C++ arrays are 0-based; the sequences below are 1-based, so index i of  *)
(* the code is position i + 1 here.                                        *)
(***************************************************************************)
EXTENDS Integers, Sequences, FiniteSets, TLC

\* ---------------------------------------------------------------- bounds
\* PegCount is a 64-bit unsigned integer; the model keeps the wrap-around
\* but at a reduced modulus.
PegMod == 8
\* cap on the ghost counter of counter_count resolutions
MaxResolutions == 3
\* table_level is an int; the walk is explored for depths in -MaxDepth .. MaxDepth
MaxDepth == 3

\* ------------------------------------------------------- static descriptors
\* a null const char*
NullName == "nullptr"

\* a null pointer to a PegInfo, PegCount or TraceMask sequence
NullPtr == << >>

Peg(t, n) == [type |-> t, name |-> n]

\* { CountType::END, nullptr, nullptr }
PegEnd == Peg("END", NullName)

simple_pegs == << Peg("SUM", "packets"), PegEnd >>

\* The PegInfo sequences a concrete module may return from get_pegs():
\* none at all, the sentinel alone, simple_pegs, and tables mixing the kinds
\* (the last one with a repeated name).
PegTables ==
    { NullPtr,
      << PegEnd >>,
      simple_pegs,
      << Peg("NOW", "sessions"), Peg("MAX", "max_sessions"), PegEnd >>,
      << Peg("MAX", "peak"), Peg("SUM", "peak"), PegEnd >> }

PegValues == 0 .. (PegMod - 1)

TraceValue(a, m) == [alias |-> a, mask |-> m]

\* static const TraceValue default_trace_values[] = { { "all", 1 } };
default_trace_values == << TraceValue("all", 1) >>

\* TraceMask s_default_trace_values(default_trace_values, size)
s_default_trace_values == default_trace_values

\* a module-specific trace mask, with a repeated alias
module_trace_values ==
    << TraceValue("detect", 2), TraceValue("flow", 4), TraceValue("detect", 1) >>

\* the module_trace_mask argument of the constructor, when a trace is given
ModuleTraceMasks == { NullPtr, module_trace_values }

\* fully-qualified names, one character per element
FqnTraceAll == << "m", ".", "t", "r", "a", "c", "e", ".", "a", "l", "l" >>
FqnNested   == << "a", ".", "b", ".", "t", "r", "a", "c", "e", ".", "c" >>
FqnOpt      == << "m", ".", "o", "p", "t" >>
FqnNoLead   == << "t", "r", "a", "c", "e", ".", "a", "l", "l" >>
FqnNoTail   == << "m", ".", "t", "r", "a", "c", "e" >>
Fqns == { FqnTraceAll, FqnNested, FqnOpt, FqnNoLead, FqnNoTail }

\* the literal ".trace." of Module::set
TraceSegment == << ".", "t", "r", "a", "c", "e", "." >>

\* a Value: the name of the option it is bound to and its number
Values == [name : {"all", "detect", "other"}, num : {0, 1, 256}]

\* the values of the trace target when the module is constructed
TraceInits == {0, 2, 5}

VARIABLES
    ctor,          \* the constructor's arguments: is t given, is module_trace_param
                   \* given, and module_trace_mask
    list,          \* Module::list
    trace_mask,    \* Module::trace_mask: NullPtr or the TraceValue entries
    trace,         \* *Module::trace, the trace target
    table_level,   \* Module::table_level
    marks,         \* ghost: the depth saved by the caller at each open enter_table
    unmatched,     \* ghost: some exit_table was called with no enter_table open
    pegs,          \* get_pegs(): NullPtr or a sentinel-terminated PegInfo sequence
    has_counts,    \* get_counts() # nullptr
    is_global,     \* global_stats()
    live,          \* the array get_counts() points to (the live values)
    num_counts,    \* Module::num_counts
    counts,        \* Module::counts (the recorded totals)
    call,          \* ghost: the last operation called, with its arguments
    before,        \* ghost: the runtime state when that call was entered
    hwm,           \* ghost: per MAX index, largest live value aggregated since the last reset
    resolutions    \* ghost: how often reset_stats ran its sizing block

statVars == << pegs, has_counts, is_global, live, num_counts, counts, hwm, resolutions >>

walkVars == << ctor, list, trace_mask, trace, table_level, marks, unmatched >>

vars == << statVars, walkVars, call, before >>

\* ------------------------------------------------------------------ helpers
Max(a, b) == IF a > b THEN a ELSE b

\* the walk of reset_stats counting the sentinel as well
RECURSIVE CountPegsWithSentinel(_, _)
CountPegsWithSentinel(q, n) ==
    IF q[n + 1].name # NullName THEN CountPegsWithSentinel(q, n + 1) ELSE n + 1

\* number of entries of q in front of the first one whose name is null,
\* counted from n as the loop of reset_stats does
RECURSIVE CountPegs(_, _)
CountPegs(q, n) == IF q[n + 1].name # NullName THEN CountPegs(q, n + 1) ELSE n

\* std::vector::resize: keeps the leading elements, value-initialises new ones
Resize(c, n) == [i \in 1 .. n |-> IF i <= Len(c) THEN c[i] ELSE 0]

\* the module's runtime state
Snapshot ==
    [num_counts |-> num_counts, counts |-> counts, live |-> live,
     table_level |-> table_level, trace |-> trace]

\* ------------------------------------------------------------- peg helpers
set_peg_count(c, i, value) == [c EXCEPT ![i] = value]

set_max_peg_count(c, i, value) == IF value > c[i] THEN [c EXCEPT ![i] = value] ELSE c

add_peg_count(c, i, value) == [c EXCEPT ![i] = (c[i] + value) % PegMod]

\* --------------------------------------------------------------- reset_stats
\* TRUE when reset_stats takes its sizing branch
Resolves(s) == s.num_counts <= 0

ZeroCounts(c, n) == [i \in 1 .. Len(c) |-> IF i <= n THEN 0 ELSE c[i]]

\* reset_stats zeroing the totals only when it has just sized them
ResetStatsZeroesOnSizing(s) ==
    IF Resolves(s)
    THEN IF pegs = NullPtr
         THEN [s EXCEPT !.num_counts = 0]
         ELSE LET n == CountPegs(pegs, 0)
              IN  [s EXCEPT !.num_counts = n,
                            !.counts = ZeroCounts(Resize(s.counts, n), n)]
    ELSE s

\* reset_stats with its zeroing loop stopping one slot early
ResetStatsOffByOne(s) ==
    IF Resolves(s)
    THEN IF pegs = NullPtr
         THEN [s EXCEPT !.num_counts = 0]
         ELSE LET n == CountPegs(pegs, 0)
              IN  [s EXCEPT !.num_counts = n,
                            !.counts = ZeroCounts(Resize(s.counts, n), n - 1)]
    ELSE [s EXCEPT !.counts = ZeroCounts(s.counts, s.num_counts - 1)]

\* reset_stats putting the nesting depth back to zero as well
ResetStatsClearsLevel(s) ==
    IF Resolves(s)
    THEN IF pegs = NullPtr
         THEN [s EXCEPT !.num_counts = 0, !.table_level = 0]
         ELSE LET n == CountPegs(pegs, 0)
              IN  [s EXCEPT !.num_counts = n,
                            !.counts = ZeroCounts(Resize(s.counts, n), n),
                            !.table_level = 0]
    ELSE [s EXCEPT !.counts = ZeroCounts(s.counts, s.num_counts), !.table_level = 0]

ResetStatsOp(s) ==
    IF Resolves(s)
    THEN IF pegs = NullPtr
         THEN [s EXCEPT !.num_counts = 0]
         ELSE LET n == CountPegs(pegs, 0)
              IN  [s EXCEPT !.num_counts = n,
                            !.counts = ZeroCounts(Resize(s.counts, n), n)]
    ELSE [s EXCEPT !.counts = ZeroCounts(s.counts, s.num_counts)]

\* ----------------------------------------------------------------- sum_stats
\* SumCase with the SUM case leaving the live value in place
SumCaseKeepsLive(s, i, acc) ==
    CASE pegs[i].type = "END" -> s
      [] pegs[i].type = "SUM" ->
            [s EXCEPT !.counts = add_peg_count(s.counts, i, s.live[i])]
      [] pegs[i].type = "NOW" ->
            IF acc THEN [s EXCEPT !.counts = add_peg_count(s.counts, i, s.live[i])]
                   ELSE s
      [] pegs[i].type = "MAX" ->
            [s EXCEPT !.counts = set_max_peg_count(s.counts, i, s.live[i])]

\* SumCase with the MAX case storing the live value unconditionally
SumCaseMaxOverwrites(s, i, acc) ==
    CASE pegs[i].type = "END" -> s
      [] pegs[i].type = "SUM" ->
            [s EXCEPT !.counts = add_peg_count(s.counts, i, s.live[i]),
                      !.live = [s.live EXCEPT ![i] = 0]]
      [] pegs[i].type = "NOW" ->
            IF acc THEN [s EXCEPT !.counts = add_peg_count(s.counts, i, s.live[i])]
                   ELSE s
      [] pegs[i].type = "MAX" ->
            [s EXCEPT !.counts = set_peg_count(s.counts, i, s.live[i])]

\* SumCase with the NOW case ignoring accumulate_now_stats
SumCaseNowAlways(s, i, acc) ==
    CASE pegs[i].type = "END" -> s
      [] pegs[i].type = "SUM" ->
            [s EXCEPT !.counts = add_peg_count(s.counts, i, s.live[i]),
                      !.live = [s.live EXCEPT ![i] = 0]]
      [] pegs[i].type = "NOW" ->
            [s EXCEPT !.counts = add_peg_count(s.counts, i, s.live[i])]
      [] pegs[i].type = "MAX" ->
            [s EXCEPT !.counts = set_max_peg_count(s.counts, i, s.live[i])]

\* SumCase with the MAX case done only under accumulate_now_stats
SumCaseMaxOnRequest(s, i, acc) ==
    CASE pegs[i].type = "END" -> s
      [] pegs[i].type = "SUM" ->
            [s EXCEPT !.counts = add_peg_count(s.counts, i, s.live[i]),
                      !.live = [s.live EXCEPT ![i] = 0]]
      [] pegs[i].type = "NOW" ->
            IF acc THEN [s EXCEPT !.counts = add_peg_count(s.counts, i, s.live[i])]
                   ELSE s
      [] pegs[i].type = "MAX" ->
            IF acc THEN [s EXCEPT !.counts = set_max_peg_count(s.counts, i, s.live[i])]
                   ELSE s

\* one pass of the switch on q[i].type
SumCase(s, i, acc) ==
    CASE pegs[i].type = "END" -> s
      [] pegs[i].type = "SUM" ->
            [s EXCEPT !.counts = add_peg_count(s.counts, i, s.live[i]),
                      !.live = [s.live EXCEPT ![i] = 0]]
      [] pegs[i].type = "NOW" ->
            IF acc THEN [s EXCEPT !.counts = add_peg_count(s.counts, i, s.live[i])]
                   ELSE s
      [] pegs[i].type = "MAX" ->
            [s EXCEPT !.counts = set_max_peg_count(s.counts, i, s.live[i])]

\* GlobalCase adding the live value instead of storing it
GlobalCaseAdds(s, i) == [s EXCEPT !.counts = add_peg_count(s.counts, i, s.live[i])]

\* the body of the global_stats() loop
GlobalCase(s, i) == [s EXCEPT !.counts = set_peg_count(s.counts, i, s.live[i])]

\* for ( int i = 0; i < num_counts; i++ ), from position i on
RECURSIVE SumLoop(_, _, _)
SumLoop(s, i, acc) ==
    IF i > s.num_counts THEN s
    ELSE SumLoop(IF is_global THEN GlobalCase(s, i) ELSE SumCase(s, i, acc), i + 1, acc)

\* sum_stats without the implicit reset_stats
SumStatsNoReset(s, acc) == IF ~has_counts THEN s ELSE SumLoop(s, 1, acc)

SumStatsOp(s, acc) ==
    LET r == IF s.num_counts < 0 THEN ResetStatsOp(s) ELSE s
    IN  IF ~has_counts THEN r ELSE SumLoop(r, 1, acc)

\* ---------------------------------------------------------- get_global_count
\* the scan of get_global_count keeping the last descriptor called name
RECURSIVE FindPegLast(_, _, _)
FindPegLast(infos, name, i) ==
    IF infos[i].name = NullName THEN 0
    ELSE LET later == FindPegLast(infos, name, i + 1)
         IN  IF later # 0 THEN later
             ELSE IF infos[i].name = name THEN i ELSE 0

\* position of the first descriptor called name, scanning from i
RECURSIVE FindPeg(_, _, _)
FindPeg(infos, name, i) ==
    IF infos[i].name = NullName THEN 0
    ELSE IF infos[i].name = name THEN i
    ELSE FindPeg(infos, name, i + 1)

PegNames == IF pegs = NullPtr THEN {} ELSE { pegs[i].name : i \in 1 .. CountPegs(pegs, 0) }

\* counts[i]; past the end of the vector the read is undefined and may give anything
GlobalCountResults(c, i) == IF i <= Len(c) THEN { c[i] } ELSE PegValues

\* ---------------------------------------------------------------- TraceMask
RECURSIVE BitOr(_, _)
BitOr(a, b) ==
    IF a = 0 THEN b
    ELSE IF b = 0 THEN a
    ELSE Max(a % 2, b % 2) + 2 * BitOr(a \div 2, b \div 2)

\* Value::get_uint8
get_uint8(v) == v.num % 256

\* TraceMask::set(const Value&, Trace*) going on after a match, so that every
\* entry with the alias adds its mask
RECURSIVE TraceMaskSetEveryMatch(_, _, _, _)
TraceMaskSetEveryMatch(values, k, v, mask) ==
    IF k > Len(values) THEN [ret |-> FALSE, mask |-> mask]
    ELSE IF v.name = values[k].alias
         THEN [ret |-> TRUE,
               mask |-> TraceMaskSetEveryMatch(values, k + 1, v,
                            IF get_uint8(v) # 0 THEN BitOr(mask, values[k].mask)
                                                ELSE mask).mask]
         ELSE TraceMaskSetEveryMatch(values, k + 1, v, mask)

\* TraceMask::set(const Value&, Trace*), scanning from entry k
RECURSIVE TraceMaskSet(_, _, _, _)
TraceMaskSet(values, k, v, mask) ==
    IF k > Len(values) THEN [ret |-> FALSE, mask |-> mask]
    ELSE IF v.name = values[k].alias
         THEN [ret |-> TRUE,
               mask |-> IF get_uint8(v) # 0 THEN BitOr(mask, values[k].mask) ELSE mask]
         ELSE TraceMaskSet(values, k + 1, v, mask)

\* TraceMask::set(Trace*): every entry's mask, from entry k on
RECURSIVE TraceMaskSetAll(_, _, _)
TraceMaskSetAll(values, k, mask) ==
    IF k > Len(values) THEN mask
    ELSE TraceMaskSetAll(values, k + 1, BitOr(mask, values[k].mask))

\* the needle looked for right after the first character only
StrStrAfterFirst(hay, needle) ==
    Len(hay) > Len(needle) /\ SubSeq(hay, 2, 1 + Len(needle)) = needle

\* strstr(hay, needle) # nullptr
StrStr(hay, needle) ==
    \E k \in 1 .. (Len(hay) - Len(needle) + 1) :
        SubSeq(hay, k, k + Len(needle) - 1) = needle

\* Module::set
ModuleSet(fqn, v) ==
    IF StrStr(fqn, TraceSegment)
    THEN IF trace_mask # NullPtr
         THEN TraceMaskSet(trace_mask, 1, v, trace)
         ELSE [ret |-> FALSE, mask |-> trace]
    ELSE [ret |-> FALSE, mask |-> trace]

\* ------------------------------------------------------- verified begin/set/end
\* verified_begin counting the table only when begin() succeeds
LevelAfterBeginOnSuccess(level, hook) == IF hook THEN level + 1 ELSE level

\* verified_end leaving the table only when end() succeeds
LevelAfterEndOnSuccess(level, hook) == IF hook THEN level - 1 ELSE level

\* table_level after verified_begin, whatever begin() returns
LevelAfterBegin(level, hook) == level + 1

\* table_level after verified_end, whatever end() returns
LevelAfterEnd(level, hook) == level - 1

\* verified_set with the list check one level too low
VerifiedSetBelowOne(fqn, v) ==
    IF list /\ table_level < 1
    THEN [ret |-> FALSE, mask |-> trace, delegated |-> FALSE]
    ELSE [ret |-> ModuleSet(fqn, v).ret, mask |-> ModuleSet(fqn, v).mask,
          delegated |-> TRUE]

\* verified_set: the list check, then set(); delegated tells whether set() ran
VerifiedSet(fqn, v) ==
    IF list /\ table_level < 2
    THEN [ret |-> FALSE, mask |-> trace, delegated |-> FALSE]
    ELSE [ret |-> ModuleSet(fqn, v).ret, mask |-> ModuleSet(fqn, v).mask,
          delegated |-> TRUE]

\* enable_trace with its null check inverted
EnableTraceInverted(mask, t) == t

\* enable_trace: if ( trace_mask ) trace_mask->set(trace)
EnableTraceOp(mask, t) ==
    IF mask # NullPtr THEN TraceMaskSetAll(mask, 1, t) ELSE t

\* ------------------------------------------------------------------- ghosts
StatCall(n, a, i, v, r) == [name |-> n, acc |-> a, index |-> i, value |-> v, ret |-> r]

\* matched: the call is an exit_table that closes an open enter_table;
\* mark: the depth the caller saw when it made that enter_table
WalkCall(n, f, v, h, r, matched, mark) ==
    [name |-> n, fqn |-> f, val |-> v, hook |-> h, ret |-> r,
     matched |-> matched, mark |-> mark]

\* largest live value folded into a MAX peg since the totals were last zeroed
HwmAfterSum(s) ==
    [i \in 1 .. Len(s.live) |->
        IF ~is_global /\ pegs[i].type = "MAX"
        THEN Max(IF i <= Len(hwm) THEN hwm[i] ELSE 0, s.live[i])
        ELSE 0]

\* --------------------------------------------------------------------- Init
LiveLen(q, h) == IF h THEN CountPegs(q, 0) ELSE 0

\* int table_level = 0 (the member's initial value)
InitialTableLevel == 0

\* trace_mask of a module constructed without a trace
NoTraceMask == NullPtr

\* the constructor binding the module_trace_mask argument whenever a trace is given
CtorTraceMaskTakesArgument(c) ==
    IF c.trace THEN c.mask ELSE NoTraceMask

\* trace_mask as the constructor leaves it: if ( t ) { if ( module_trace_param ) ... }
CtorTraceMask(c) ==
    IF c.trace
    THEN IF c.param THEN c.mask ELSE s_default_trace_values
    ELSE NoTraceMask

\* the arguments a module is constructed with; without a trace the other two
\* are not looked at
CtorArgs ==
    { c \in [trace : BOOLEAN, param : BOOLEAN, mask : ModuleTraceMasks] :
        ~c.trace => (~c.param /\ c.mask = NullPtr) }

\* Module::init and the constructors
InitModule ==
    /\ pegs \in PegTables
    /\ has_counts \in (IF pegs = NullPtr THEN {FALSE} ELSE BOOLEAN)
    /\ is_global \in BOOLEAN
    /\ live = [i \in 1 .. LiveLen(pegs, has_counts) |-> 0]
    /\ num_counts = -1
    /\ counts = << >>
    /\ list \in BOOLEAN
    /\ ctor \in CtorArgs
    /\ trace_mask = CtorTraceMask(ctor)
    /\ trace \in (IF ctor.trace THEN TraceInits ELSE {0})
    /\ table_level = InitialTableLevel
    /\ marks = << >>
    /\ unmatched = FALSE
    /\ call = StatCall("init", FALSE, 0, 0, 0)
    /\ before = Snapshot
    /\ hwm = << >>
    /\ resolutions = 0

\* ------------------------------------------------------------ stats actions
\* the owning thread writes live counter i (p[i] = v)
WriteLive ==
    \E i \in 1 .. Len(live), v \in PegValues :
        /\ live' = [live EXCEPT ![i] = v]
        /\ call' = StatCall("write", FALSE, i, v, 0)
        /\ before' = Snapshot
        /\ UNCHANGED << pegs, has_counts, is_global, num_counts, counts, hwm, resolutions >>
        /\ UNCHANGED walkVars

reset_stats ==
    LET s == ResetStatsOp(Snapshot)
    IN  /\ Resolves(Snapshot) => resolutions < MaxResolutions
        /\ num_counts' = s.num_counts
        /\ counts' = s.counts
        /\ live' = s.live
        /\ call' = StatCall("reset_stats", FALSE, 0, 0, 0)
        /\ before' = Snapshot
        /\ hwm' = [i \in 1 .. Len(hwm) |-> 0]
        /\ resolutions' = IF Resolves(Snapshot) THEN resolutions + 1 ELSE resolutions
        /\ table_level' = s.table_level
        /\ trace' = s.trace
        /\ UNCHANGED << pegs, has_counts, is_global >>
        /\ UNCHANGED << ctor, list, trace_mask, marks, unmatched >>

sum_stats ==
    \E accumulate_now_stats \in BOOLEAN :
        LET s == SumStatsOp(Snapshot, accumulate_now_stats)
        IN  /\ num_counts' = s.num_counts
            /\ counts' = s.counts
            /\ live' = s.live
            /\ call' = StatCall("sum_stats", accumulate_now_stats, 0, 0, 0)
            /\ before' = Snapshot
            /\ hwm' = IF has_counts THEN HwmAfterSum(Snapshot) ELSE hwm
            /\ resolutions' = IF num_counts < 0 THEN resolutions + 1 ELSE resolutions
            /\ table_level' = s.table_level
            /\ trace' = s.trace
            /\ UNCHANGED << pegs, has_counts, is_global >>
            /\ UNCHANGED << ctor, list, trace_mask, marks, unmatched >>

\* called with a name of the module's own descriptors only (anything else is
\* the assert(false))
get_global_count ==
    \E name \in PegNames :
        \E r \in GlobalCountResults(counts, FindPeg(pegs, name, 1)) :
            /\ call' = StatCall("get_global_count", FALSE, FindPeg(pegs, name, 1), name, r)
            /\ before' = Snapshot
            /\ UNCHANGED statVars
            /\ UNCHANGED walkVars

\* ------------------------------------------------------------- walk actions
\* begin() is the concrete module's hook: it may return either value
verified_begin ==
    \E hook \in BOOLEAN :
        /\ table_level < MaxDepth
        /\ table_level' = LevelAfterBegin(table_level, hook)
        /\ marks' = << table_level >> \o marks
        /\ call' = WalkCall("verified_begin", << >>, 0, hook, hook, FALSE, 0)
        /\ before' = Snapshot
        /\ UNCHANGED << ctor, list, trace_mask, trace, unmatched >>
        /\ UNCHANGED statVars

verified_set ==
    \E fqn \in Fqns, v \in Values :
        LET r == VerifiedSet(fqn, v)
        IN  /\ trace' = r.mask
            /\ call' = WalkCall("verified_set", fqn, v, r.delegated, r.ret, FALSE, 0)
            /\ before' = Snapshot
            /\ UNCHANGED << ctor, list, trace_mask, table_level, marks, unmatched >>
            /\ UNCHANGED statVars

\* end() is the concrete module's hook: it may return either value
verified_end ==
    \E hook \in BOOLEAN :
        /\ table_level > -MaxDepth
        /\ table_level' = LevelAfterEnd(table_level, hook)
        /\ marks' = IF marks = << >> THEN marks ELSE Tail(marks)
        /\ unmatched' = (unmatched \/ marks = << >>)
        /\ call' = WalkCall("verified_end", << >>, 0, hook, hook, marks # << >>,
                            IF marks = << >> THEN 0 ELSE Head(marks))
        /\ before' = Snapshot
        /\ UNCHANGED << ctor, list, trace_mask, trace >>
        /\ UNCHANGED statVars

enable_trace ==
    /\ trace' = EnableTraceOp(trace_mask, trace)
    /\ call' = WalkCall("enable_trace", << >>, 0, FALSE, FALSE, FALSE, 0)
    /\ before' = Snapshot
    /\ UNCHANGED << ctor, list, trace_mask, table_level, marks, unmatched >>
    /\ UNCHANGED statVars

\* ----------------------------------------------------------- specifications
\* the statistics operations of a module
InitStats ==
    /\ InitModule
    /\ ~list
    /\ ctor = [trace |-> TRUE, param |-> FALSE, mask |-> NullPtr]
    /\ trace = 0

NextStats == WriteLive \/ reset_stats \/ sum_stats \/ get_global_count

SpecStats == InitStats /\ [][NextStats]_vars

\* the configuration walk and the trace operations of a module
InitWalk == InitModule /\ pegs = simple_pegs /\ has_counts /\ ~is_global

NextWalk == verified_begin \/ verified_set \/ verified_end \/ enable_trace

SpecWalk == InitWalk /\ [][NextWalk]_vars

\* both families of operations on one module with simple_pegs and the built-in
\* trace mask, taken up when its live counter holds 0 or 5 and left alone by
\* the packet thread from then on
InitModuleOps ==
    /\ pegs = simple_pegs
    /\ has_counts = TRUE
    /\ is_global = FALSE
    /\ live \in { << 0 >>, << 5 >> }
    /\ num_counts = -1
    /\ counts = << >>
    /\ list \in BOOLEAN
    /\ ctor = [trace |-> TRUE, param |-> FALSE, mask |-> NullPtr]
    /\ trace_mask = CtorTraceMask(ctor)
    /\ trace = 0
    /\ table_level = InitialTableLevel
    /\ marks = << >>
    /\ unmatched = FALSE
    /\ call = StatCall("init", FALSE, 0, 0, 0)
    /\ before = Snapshot
    /\ hwm = << >>
    /\ resolutions = 0

NextModuleOps == reset_stats \/ sum_stats \/ get_global_count \/ NextWalk

SpecModuleOps == InitModuleOps /\ [][NextModuleOps]_vars

TypeOK ==
    /\ num_counts \in -1 .. 2
    /\ \A i \in 1 .. Len(counts) : counts[i] \in PegValues
    /\ \A i \in 1 .. Len(live) : live[i] \in PegValues
    /\ table_level \in -MaxDepth .. MaxDepth

\* ------------------------------------------------------------------- claims
\* the last call was sum_stats on a non-global module with live counters
\* whose totals were already sized
SummedLocal ==
    /\ call.name = "sum_stats"
    /\ ~is_global
    /\ has_counts
    /\ before.num_counts >= 0

Hwm(i) == IF i <= Len(hwm) THEN hwm[i] ELSE 0

\* C1: on a non-global module, sum_stats adds the live value of every SUM peg
\* to its recorded total (wrapping at the width of PegCount) and zeroes the
\* live value; one more sum_stats with no write in between adds nothing.
C1_SumFlushesDelta ==
    SummedLocal =>
        \A i \in 1 .. num_counts :
            pegs[i].type = "SUM" =>
                /\ counts[i] = (before.counts[i] + before.live[i]) % PegMod
                /\ live[i] = 0
                /\ \A b \in BOOLEAN : SumStatsOp(Snapshot, b).counts[i] = counts[i]

\* a sum_stats(false) that flushed a nonzero SUM value into a nonzero total,
\* wrapping around
C1_Witness ==
    /\ SummedLocal
    /\ ~call.acc
    /\ \E i \in 1 .. num_counts :
          /\ pegs[i].type = "SUM"
          /\ before.live[i] > 0
          /\ before.counts[i] + before.live[i] >= PegMod
          /\ live[i] = 0

\* C2: on a non-global module, sum_stats leaves at every MAX peg the larger
\* of the previous total and the live value, so the total never decreases
\* and is the largest live value aggregated since the totals were zeroed.
C2_MaxIsHighWater ==
    /\ SummedLocal =>
          \A i \in 1 .. num_counts :
              pegs[i].type = "MAX" =>
                  /\ counts[i] = Max(before.counts[i], before.live[i])
                  /\ counts[i] >= before.counts[i]
    /\ (~is_global /\ has_counts /\ num_counts >= 0) =>
          \A i \in 1 .. num_counts :
              pegs[i].type = "MAX" => counts[i] = Hwm(i)

\* a sum_stats that kept a MAX total above a smaller, nonzero live value
C2_Witness ==
    /\ SummedLocal
    /\ \E i \in 1 .. num_counts :
          /\ pegs[i].type = "MAX"
          /\ before.live[i] > 0
          /\ before.live[i] < before.counts[i]
          /\ counts[i] = before.counts[i]

\* C3: on a non-global module, sum_stats never changes the live value of a
\* NOW peg; it adds it to the total when accumulate_now_stats is set and
\* leaves the total alone otherwise.
C3_NowOnRequest ==
    SummedLocal =>
        \A i \in 1 .. num_counts :
            pegs[i].type = "NOW" =>
                /\ live[i] = before.live[i]
                /\ counts[i] = IF call.acc
                               THEN (before.counts[i] + before.live[i]) % PegMod
                               ELSE before.counts[i]

\* a sum_stats(true) that added a nonzero NOW value to a nonzero total
C3_Witness ==
    /\ SummedLocal
    /\ call.acc
    /\ \E i \in 1 .. num_counts :
          /\ pegs[i].type = "NOW"
          /\ before.live[i] > 0
          /\ before.counts[i] > 0
          /\ live[i] = before.live[i]

\* C4: on a global module, sum_stats stores the live value of every index as
\* its recorded total, whatever the kind, the flag and the previous total,
\* and changes no live value.
C4_GlobalCopies ==
    (call.name = "sum_stats" /\ is_global /\ has_counts) =>
        /\ num_counts = Len(live)
        /\ \A i \in 1 .. num_counts : counts[i] = before.live[i]
        /\ live = before.live

\* a sum_stats on a global module that replaced a larger total of a SUM peg
C4_Witness ==
    /\ call.name = "sum_stats"
    /\ is_global
    /\ has_counts
    /\ before.num_counts >= 0
    /\ \E i \in 1 .. num_counts :
          /\ pegs[i].type = "SUM"
          /\ before.live[i] > 0
          /\ before.counts[i] > before.live[i]
          /\ counts[i] = before.live[i]

\* C5 as stated: after reset_stats every live value, the ones the next
\* sum_stats reads, is zero.
C5_LiveZeroAfterReset ==
    call.name = "reset_stats" => \A i \in 1 .. Len(live) : live[i] = 0

\* C5, amended: after reset_stats every recorded total is zero, whether or
\* not the call sized them, and the live values are the ones from before.
C5_TotalsZeroAfterReset ==
    call.name = "reset_stats" =>
        /\ Len(counts) = num_counts
        /\ \A i \in 1 .. num_counts : counts[i] = 0
        /\ live = before.live

\* a reset_stats of sized, nonzero totals next to a nonzero live value
C5_Witness ==
    /\ call.name = "reset_stats"
    /\ before.num_counts > 0
    /\ \E i \in 1 .. num_counts : before.counts[i] > 0 /\ counts[i] = 0
    /\ \E i \in 1 .. Len(live) : live[i] > 0

\* C6: reset_stats is idempotent: called again right after itself it leaves
\* counter_count, the totals and the live values as they are, and the totals
\* are all zero after each of the two calls.
C6_ResetIdempotent ==
    call.name = "reset_stats" =>
        LET again == ResetStatsOp(Snapshot)
        IN  /\ again = Snapshot
            /\ \A i \in 1 .. Len(counts) : counts[i] = 0
            /\ \A i \in 1 .. Len(again.counts) : again.counts[i] = 0

\* a reset_stats applied to the state a reset_stats leaves: sized, all zero,
\* and unchanged by the call
C6_Witness ==
    /\ call.name = "reset_stats"
    /\ before.num_counts > 1
    /\ before.num_counts = num_counts
    /\ before.counts = counts
    /\ \A i \in 1 .. num_counts : counts[i] = 0

\* C7 as stated: once counter_count is resolved, the sizing block has run
\* exactly once, for every module.
C7_ResolvedOnce == num_counts >= 0 => resolutions = 1

\* C8: sum_stats on a module whose counter_count is unresolved does what
\* reset_stats followed by sum_stats does: counter_count is resolved and the
\* live values are folded, by kind, into totals that start from zero.
C8_SumOnFreshModule ==
    (call.name = "sum_stats" /\ before.num_counts < 0) =>
        LET two == SumStatsOp(ResetStatsOp(before), call.acc)
        IN  /\ num_counts >= 0
            /\ Snapshot = two
            /\ (has_counts /\ ~is_global) =>
                  \A i \in 1 .. num_counts :
                      /\ pegs[i].type = "SUM" => counts[i] = before.live[i] /\ live[i] = 0
                      /\ pegs[i].type = "MAX" => counts[i] = before.live[i]
                      /\ pegs[i].type = "NOW" =>
                            counts[i] = IF call.acc THEN before.live[i] ELSE 0

\* scenario 1: PegInfo [SUM "packets", END], live value 5, sum_stats(false)
C8_Witness ==
    /\ call.name = "sum_stats"
    /\ ~call.acc
    /\ before.num_counts < 0
    /\ pegs = simple_pegs
    /\ ~is_global
    /\ before.live = << 5 >>
    /\ counts = << 5 >>
    /\ live = << 0 >>

\* C9: verified_begin adds one to the depth and verified_end takes one off
\* whatever the hooks return, verified_set leaves it alone; so an exit_table
\* that closes an enter_table brings the depth back to what it was before
\* that enter_table.
C9_BalancedDepth ==
    /\ call.name = "verified_begin" => table_level = before.table_level + 1
    /\ call.name = "verified_set" => table_level = before.table_level
    /\ call.name = "verified_end" =>
          /\ table_level = before.table_level - 1
          /\ call.matched => table_level = call.mark

\* an inner exit_table whose hook failed, back at the depth of its enter_table
C9_Witness ==
    /\ call.name = "verified_end"
    /\ call.matched
    /\ ~call.ret
    /\ marks # << >>
    /\ table_level = call.mark
    /\ table_level > 0

\* C10 as stated: the depth is never negative.
C10_DepthNonNegative == table_level >= 0

\* C10, amended: while no exit_table was called without an enter_table open,
\* the depth is the number of open enter_table calls, hence not negative.
C10_DepthNonNegativeWhenBalanced ==
    ~unmatched => (table_level = Len(marks) /\ table_level >= 0)

\* a balanced walk that has closed its last table
C10_Witness ==
    /\ ~unmatched
    /\ call.name = "verified_end"
    /\ table_level = 0

\* ------------------------------------------------- claims on the walk and trace
\* the fully-qualified names that hold ".trace." somewhere
TraceFqns == { FqnTraceAll, FqnNested }

\* bit b of n
Bit(n, b) == (n \div (2 ^ b)) % 2

TraceBits == 0 .. 3

\* the first entry of values called name, 0 if there is none
FirstAlias(values, name) ==
    LET S == { k \in 1 .. Len(values) : values[k].alias = name }
    IN  IF S = {} THEN 0 ELSE CHOOSE k \in S : \A j \in S : k <= j

\* the counters are as they were when the last call was entered
CountersUntouched ==
    /\ num_counts = before.num_counts
    /\ counts = before.counts
    /\ live = before.live

\* what Module::set returns for the last verified_set call
DefaultSetReturns ==
    /\ call.fqn \in TraceFqns
    /\ trace_mask # NullPtr
    /\ FirstAlias(trace_mask, call.val.name) # 0

\* C11: on a list module below depth 2 verified_set fails for every name and
\* value without running set() and without changing depth, trace target or
\* counters; from depth 2 on, and on any other module, it runs set() and
\* returns what set() returns.
C11_ListNeedsDepthTwo ==
    call.name = "verified_set" =>
        IF list /\ before.table_level < 2
        THEN /\ ~call.ret
             /\ ~call.hook
             /\ table_level = before.table_level
             /\ trace = before.trace
             /\ CountersUntouched
        ELSE /\ call.hook
             /\ call.ret = DefaultSetReturns

\* scenario 3, second half: a list module at depth 2 whose trace option is
\* handed to set() and accepted
C11_Witness ==
    /\ call.name = "verified_set"
    /\ list
    /\ before.table_level = 2
    /\ call.hook
    /\ call.ret

\* the last call was a verified_set that reached TraceMask::set
TraceSetCall ==
    /\ call.name = "verified_set"
    /\ call.hook
    /\ call.fqn \in TraceFqns
    /\ trace_mask # NullPtr

\* C12: TraceMask::set is decided by the first entry with the value's name:
\* none, and it returns false and the target keeps every bit; one, and it
\* returns true and the target gains that entry's bits if the value read as
\* uint8 is not zero, nothing otherwise. No bit of the target is cleared.
C12_FirstAliasDecides ==
    TraceSetCall =>
        LET k == FirstAlias(trace_mask, call.val.name)
            reading == call.val.num % 256
        IN  /\ call.ret = (k # 0)
            /\ \A b \in TraceBits :
                  Bit(trace, b) =
                      IF k # 0 /\ reading # 0
                      THEN Max(Bit(before.trace, b), Bit(trace_mask[k].mask, b))
                      ELSE Bit(before.trace, b)
            /\ \A b \in TraceBits : Bit(before.trace, b) <= Bit(trace, b)

\* "detect" set on a mask that lists it twice: only the first entry's bit goes in
C12_Witness ==
    /\ TraceSetCall
    /\ trace_mask = module_trace_values
    /\ call.val = [name |-> "detect", num |-> 1]
    /\ call.ret
    /\ before.trace = 0
    /\ trace = 2

\* C13: Module::set goes by containment of ".trace." alone: with it, result
\* and trace target are those of TraceMask::set on the module's mask (failure
\* and no change when the module has none); without it, failure, and trace
\* target, depth and counters stay as they are.
C13_RoutesOnContainment ==
    (call.name = "verified_set" /\ call.hook) =>
        IF call.fqn \in TraceFqns
        THEN IF trace_mask # NullPtr
             THEN LET r == TraceMaskSet(trace_mask, 1, call.val, before.trace)
                  IN  call.ret = r.ret /\ trace = r.mask
             ELSE ~call.ret /\ trace = before.trace
        ELSE /\ ~call.ret
             /\ trace = before.trace
             /\ table_level = before.table_level
             /\ CountersUntouched

\* a name with ".trace." deep inside it, taken as a trace option and applied
C13_Witness ==
    /\ call.name = "verified_set"
    /\ call.hook
    /\ call.fqn = FqnNested
    /\ call.ret
    /\ trace # before.trace

\* C14: a module constructed with a trace and no module_trace_param has the
\* built-in mask, the one entry "all" with mask 1: "all" with a nonzero
\* reading returns true and sets bit 0, with a zero reading returns true and
\* changes nothing, any other name returns false and changes nothing.
C14_DefaultTraceMask ==
    (ctor.trace /\ ~ctor.param) =>
        /\ trace_mask = << [alias |-> "all", mask |-> 1] >>
        /\ (call.name = "verified_set" /\ call.hook /\ call.fqn \in TraceFqns) =>
              IF call.val.name = "all"
              THEN /\ call.ret
                   /\ \A b \in TraceBits :
                         Bit(trace, b) =
                             IF b = 0 /\ call.val.num % 256 # 0
                             THEN 1 ELSE Bit(before.trace, b)
              ELSE ~call.ret /\ trace = before.trace

\* scenario 2: "all" with reading 1 on target 0, on a module that was even
\* handed a module_trace_mask but no module_trace_param
C14_Witness ==
    /\ ctor.trace
    /\ ~ctor.param
    /\ ctor.mask = module_trace_values
    /\ call.name = "verified_set"
    /\ call.val = [name |-> "all", num |-> 1]
    /\ call.ret
    /\ before.trace = 0
    /\ trace = 1

\* C15: enable_trace leaves in the trace target its previous bits and the
\* bits of every entry of the module's mask, at any depth and for list
\* modules too; without a mask it changes nothing.
C15_EnableTraceOrsAll ==
    call.name = "enable_trace" =>
        /\ \A b \in TraceBits :
              Bit(trace, b) = 1 <=>
                  \/ Bit(before.trace, b) = 1
                  \/ \E k \in 1 .. Len(trace_mask) : Bit(trace_mask[k].mask, b) = 1
        /\ trace_mask = NullPtr => trace = before.trace
        /\ table_level = before.table_level

\* enable_trace on a list module below depth 2 turning on all three bits
C15_Witness ==
    /\ call.name = "enable_trace"
    /\ list
    /\ table_level < 2
    /\ trace_mask = module_trace_values
    /\ before.trace = 0
    /\ trace = 7

\* ------------------------------------------------------ claims on the counters
\* the first position of pegs whose name is n
FirstNamed(n) == CHOOSE i \in 1 .. Len(pegs) : pegs[i].name = n /\ \A j \in 1 .. (i - 1) : pegs[j].name # n

\* C16: once the totals are sized, get_global_count returns the total at the
\* first descriptor with the name and changes nothing.
C16_GlobalCountByName ==
    (call.name = "get_global_count" /\ num_counts >= 0) =>
        /\ call.index = FirstNamed(call.value)
        /\ call.ret = counts[FirstNamed(call.value)]
        /\ CountersUntouched
        /\ table_level = before.table_level
        /\ trace = before.trace

\* scenario 4: "packets" reads 5 on simple_pegs after the live 5 was summed
C16_Witness ==
    /\ call.name = "get_global_count"
    /\ pegs = simple_pegs
    /\ ~is_global
    /\ call.value = "packets"
    /\ call.ret = 5
    /\ counts = << 5 >>
    /\ live = << 0 >>

WalkCalls == { "verified_begin", "verified_set", "verified_end" }

\* C17: verified_begin, verified_set and verified_end, failing or not, leave
\* live values, totals and counter_count alone; reset_stats and sum_stats
\* leave depth and trace target alone.
C17_WalkAndStatsApart ==
    /\ call.name \in WalkCalls => CountersUntouched
    /\ call.name \in { "reset_stats", "sum_stats" } =>
          (table_level = before.table_level /\ trace = before.trace)

\* a reset_stats of a nonzero total in the middle of a walk that has set the
\* trace target
C17_Witness ==
    /\ call.name = "reset_stats"
    /\ before.counts = << 5 >>
    /\ table_level = 2
    /\ trace = 1

\* C18: once resolved, counter_count is the number of descriptors in front of
\* the END sentinel and the totals have that length (zero when there is no
\* PegInfo sequence), and no index sum_stats visits is the END entry.
C18_CountStopsAtSentinel ==
    num_counts >= 0 =>
        /\ num_counts = (IF pegs = NullPtr THEN 0 ELSE Len(pegs) - 1)
        /\ Len(counts) = num_counts
        /\ \A i \in 1 .. num_counts : pegs[i].type # "END" /\ pegs[i].name # NullName
        /\ pegs # NullPtr => pegs[num_counts + 1] = PegEnd

\* a two-peg module summed with both totals sized
C18_Witness ==
    /\ call.name = "sum_stats"
    /\ num_counts = 2
    /\ Len(counts) = 2
    /\ pegs[3] = PegEnd

\* C19 as stated: get_global_count always reads inside the totals.
C19_ReadInsideTotals ==
    call.name = "get_global_count" => call.index <= Len(counts)

\* C20: what sum_stats leaves does not depend on accumulate_now_stats, except
\* in the totals of the NOW pegs of a non-global module.
C20_FlagOnlyForNow ==
    call.name = "sum_stats" =>
        LET other == SumStatsOp(before, ~call.acc)
        IN  /\ live = other.live
            /\ num_counts = other.num_counts
            /\ Len(counts) = Len(other.counts)
            /\ \A i \in 1 .. Len(counts) :
                  (is_global \/ pegs[i].type # "NOW") => counts[i] = other.counts[i]

\* a sum_stats whose flag did change the total of a NOW peg, next to a MAX peg
\* it raised
C20_Witness ==
    /\ call.name = "sum_stats"
    /\ ~is_global
    /\ \E i \in 1 .. num_counts :
          /\ pegs[i].type = "NOW"
          /\ counts[i] # SumStatsOp(before, ~call.acc).counts[i]
    /\ \E i \in 1 .. num_counts :
          /\ pegs[i].type = "MAX"
          /\ before.num_counts >= 0
          /\ counts[i] > before.counts[i]
====
